---------------------------- MODULE Spec2Model ----------------------------
(***************************************************************************)
(* A model of the matrix calculator's Matrix (src/src/matrix.rs): the grid *)
(* `elements`, the running `checksum`, and the methods insert_row, get,    *)
(* set and operate, each translated statement by statement.                *)
(*                                                                         *)
(* Cells are exact rationals in the program (fraction::Fraction).  The     *)
(* model draws cells, values and scalers from the integers, a subring of   *)
(* the rationals on which Fraction's +, - and * are the integer ones.      *)
(*                                                                         *)
(* Indices are 0-based in the program and in every operator's parameters;  *)
(* TLA+ sequences are 1-based, so cell (x, y) is elements[x + 1][y + 1].   *)
(*                                                                         *)
(* A method's result is a set of outcomes, because two results depend on   *)
(* the build: `height() - 1` and `width - 1` on usize panic when overflow  *)
(* checks are on (debug profile) and wrap when they are off (release).     *)
(***************************************************************************)
EXTENDS Integers, Sequences, FiniteSets, TLC

VARIABLES elements, checksum, pre, last, nops, io, other

vars == <<elements, checksum, pre, last, nops, io, other>>

(***************************************************************************)
(* Bounds of the model.                                                    *)
(***************************************************************************)
\* rows a matrix is grown to by insert_row
MaxHeight == 2
\* calls other than accepted insertions in one session
MaxOps == 2
\* the same two bounds for the session of the 3 x 3 example
TraceHeight == 3
TraceOps == 2
\* input lines read in one session of main
MaxLines == 2
\* calls made on the two matrices, together, before they are compared
EqOps == 2

(***************************************************************************)
(* Inputs.                                                                 *)
(***************************************************************************)
\* rows of width 0, 1 and 2 offered to insert_row
SmallRows == {<<>>, <<2>>, <<-1>>, <<1, 3>>}
\* the rows of the 3 x 3 example
TraceRows == {<<1, 2, 3>>, <<4, 5, 6>>, <<7, 8, 9>>}
\* values written by set
SetVals == {5}
\* scalers of Multiply and ReplaceWithMultiple
Scalers == {-1, 0, 2}

(***************************************************************************)
(* Values.                                                                 *)
(***************************************************************************)
Matrix(els, cs) == [elements |-> els, checksum |-> cs]

NoErr == [kind |-> "", expected |-> 0, got |-> 0, wrapped |-> FALSE]

\* Err(format!(...)): the message's kind and the two numbers it reports
ErrMsg(kind, expected, got) ==
    [kind |-> kind, expected |-> expected, got |-> got, wrapped |-> FALSE]

\* the message built from a usize subtraction that wrapped below zero
ErrWrapped(kind, got) ==
    [kind |-> kind, expected |-> 0, got |-> got, wrapped |-> TRUE]

Ok(m, val) == [m |-> m, res |-> "Ok", err |-> NoErr, val |-> val]

Err(m, e) == [m |-> m, res |-> "Err", err |-> e, val |-> 0]

Panic(m, kind) == [m |-> m, res |-> "Panic", err |-> ErrMsg(kind, 0, 0), val |-> 0]

\* Option<usize>: None is the empty tuple, Some(w) is <<w>>
None == <<>>

Some(w) == <<w>>

(***************************************************************************)
(* Matrix::new, width, height, calc_checksum.                              *)
(***************************************************************************)
new == Matrix(<<>>, 0)

height(m) == Len(m.elements)

width(m) == IF Len(m.elements) = 0 THEN None ELSE Some(Len(m.elements[1]))

\* x and y reach it as Fraction::from(i as u64) or Fraction::from(i as f64);
\* both are the exact integer i for every index a matrix in memory can have
calc_checksum(x, y, n) == (x + y) * n


(***************************************************************************)
(* Matrix::insert_row and Matrix::from_iter.                               *)
(***************************************************************************)
\* the loop with the row index taken after the push: height() + 1
RECURSIVE insert_row_sum_post(_, _, _)
insert_row_sum_post(h, row, i) ==
    IF i >= Len(row) THEN 0
    ELSE calc_checksum(h + 1, i, row[i + 1]) + insert_row_sum_post(h, row, i + 1)

\* the loop of insert_row: the checksum terms of the cells from column i on
RECURSIVE insert_row_sum(_, _, _)
insert_row_sum(h, row, i) ==
    IF i >= Len(row) THEN 0
    ELSE calc_checksum(h, i, row[i + 1]) + insert_row_sum(h, row, i + 1)

\* insert_row without the match on width(): every row is pushed
insert_row_unchecked(m, row) ==
    {Ok(Matrix(Append(m.elements, row),
               m.checksum + insert_row_sum(height(m), row, 0)), 0)}

\* the loop has added to self.checksum before the width is matched
insert_row(m, row) ==
    LET cs == m.checksum + insert_row_sum(height(m), row, 0)
        w == width(m)
    IN  IF w = None \/ w = Some(Len(row))
        THEN {Ok(Matrix(Append(m.elements, row), cs), 0)}
        ELSE {Err(Matrix(m.elements, cs),
                  ErrMsg("InvalidRowLength", w[1], Len(row)))}

\* `matrix.insert_row(row)?` for each row in turn
RECURSIVE from_iter_loop(_, _, _)
from_iter_loop(m, rows, i) ==
    IF i > Len(rows) THEN {Ok(m, 0)}
    ELSE UNION { IF o.res = "Ok" THEN from_iter_loop(o.m, rows, i + 1) ELSE {o}
                 : o \in insert_row(m, rows[i]) }

from_iter(rows) == from_iter_loop(Matrix(<<>>, 0), rows, 1)

(***************************************************************************)
(* Matrix::check_xy, set and get.                                          *)
(***************************************************************************)
\* the message computed as `n - 2`: the subtraction underflows for n = 1 too
SubOne_minus_two(m, n, kind, got) ==
    IF n >= 2 THEN {Err(m, ErrMsg(kind, n - 2, got))}
    ELSE {Panic(m, "SubtractWithOverflow"), Err(m, ErrWrapped(kind, got))}

\* `self.height() - 1` with height() = 0, `width - 1` with width = 0
SubOne(m, n, kind, got) ==
    IF n >= 1 THEN {Err(m, ErrMsg(kind, n - 1, got))}
    ELSE {Panic(m, "SubtractWithOverflow"), Err(m, ErrWrapped(kind, got))}

check_xy(m, x, y) ==
    IF x >= height(m) THEN SubOne(m, height(m), "InvalidRow", x)
    ELSE IF width(m) # None
         THEN IF y >= width(m)[1]
              THEN SubOne(m, width(m)[1], "InvalidColumn", y)
              ELSE {Ok(m, 0)}
         ELSE {Err(m, ErrMsg("EmptyRow", x, y))}

\* self.elements[x][y] = value
StoreCell(els, x, y, value) ==
    [els EXCEPT ![x + 1] = [@ EXCEPT ![y + 1] = value]]

\* diff is the old term minus the new term, and it is added to the checksum
set_diff(x, y, n, value) == calc_checksum(x, y, n) - calc_checksum(x, y, value)

set(m, x, y, value) ==
    UNION { IF c.res # "Ok" THEN {c}
            ELSE LET n == m.elements[x + 1][y + 1]
                     diff == set_diff(x, y, n, value)
                 IN  {Ok(Matrix(StoreCell(m.elements, x, y, value),
                                m.checksum + diff), 0)}
            : c \in check_xy(m, x, y) }

get(m, x, y) ==
    UNION { IF c.res # "Ok" THEN {c}
            ELSE {Ok(m, m.elements[x + 1][y + 1])}
            : c \in check_xy(m, x, y) }

checksum_of(m) == m.checksum

\* PartialEq::eq: different checksums answer false before the elements are read
eq(self, rhs) ==
    IF self.checksum # rhs.checksum THEN FALSE
    ELSE self.elements = rhs.elements

(***************************************************************************)
(* Operations (the variants Matrix::operate matches) and calls.            *)
(***************************************************************************)
Call(op, i, j, k, row) == [op |-> op, i |-> i, j |-> j, k |-> k, row |-> row]

SwapRows(lhs, rhs) == Call("SwapRows", lhs, rhs, 0, <<>>)

Multiply(row, scaler) == Call("Multiply", row, 0, scaler, <<>>)

ReplaceWithMultiple(scaler, from_row, to_row) ==
    Call("ReplaceWithMultiple", from_row, to_row, scaler, <<>>)

ShowHelp == Call("ShowHelp", 0, 0, 0, <<>>)

(***************************************************************************)
(* Matrix::operate.                                                        *)
(***************************************************************************)
\* self.elements.swap(lhs, rhs)
SwapElements(els, lhs, rhs) ==
    [els EXCEPT ![lhs + 1] = els[rhs + 1], ![rhs + 1] = els[lhs + 1]]

\* one loop of SwapRows over the swapped elements, from column i on: `old` is
\* read from row r_old, `new` from row r_new, for every column of row r_new
RECURSIVE swap_loop(_, _, _, _)
swap_loop(els, r_old, r_new, i) ==
    IF i >= Len(els[r_new + 1]) THEN 0
    ELSE LET old_n == els[r_old + 1][i + 1]
             new_n == els[r_new + 1][i + 1]
         IN  (calc_checksum(r_old, i, old_n) - calc_checksum(r_new, i, new_n))
             + swap_loop(els, r_old, r_new, i + 1)

\* SwapRows with its second loop left out
swap_diff_first_loop(els, lhs, rhs) == swap_loop(els, rhs, lhs, 0)

\* what the two loops add to self.checksum
swap_diff(els, lhs, rhs) ==
    swap_loop(els, rhs, lhs, 0) + swap_loop(els, lhs, rhs, 0)

operate_SwapRows(m, lhs, rhs) ==
    IF lhs >= height(m) THEN SubOne(m, height(m), "InvalidRow", lhs)
    ELSE IF rhs >= height(m) THEN SubOne(m, height(m), "InvalidRow", rhs)
    ELSE LET els == SwapElements(m.elements, lhs, rhs)
         IN  {Ok(Matrix(els, m.checksum + swap_diff(els, lhs, rhs)), 0)}

\* `self.set(xy, self.get(xy)? * scaler)?` for i in i..len
RECURSIVE multiply_loop(_, _, _, _, _)
multiply_loop(m, row, scaler, i, len) ==
    IF i >= len THEN {Ok(m, 0)}
    ELSE UNION { IF g.res # "Ok" THEN {g}
                 ELSE UNION { IF s.res # "Ok" THEN {s}
                              ELSE multiply_loop(s.m, row, scaler, i + 1, len)
                              : s \in set(m, row, i, g.val * scaler) }
                 : g \in get(m, row, i) }

\* Multiply with a zero scaler rejected ("cannot be zero")
operate_Multiply_nonzero(m, row, scaler) ==
    IF row >= height(m) THEN {Panic(m, "IndexOutOfBounds")}
    ELSE IF scaler = 0 THEN {Err(m, ErrMsg("ZeroScaler", 0, 0))}
    ELSE multiply_loop(m, row, scaler, 0, Len(m.elements[row + 1]))

\* self.elements[row] is an indexing panic when row is out of range
operate_Multiply(m, row, scaler) ==
    IF row >= height(m) THEN {Panic(m, "IndexOutOfBounds")}
    ELSE multiply_loop(m, row, scaler, 0, Len(m.elements[row + 1]))

\* the row mapped with `n + scaler` in place of `n * scaler`
ScaledRow_plus(row, scaler) == [i \in 1..Len(row) |-> row[i] + scaler]

\* self.elements[from_row].iter().map(|n| n * scaler).collect()
ScaledRow(row, scaler) == [i \in 1..Len(row) |-> row[i] * scaler]

\* `self.set(xy, self.get(xy)? + scaler_row[i])?` for i in i..len
RECURSIVE replace_loop(_, _, _, _, _)
replace_loop(m, to_row, scaler_row, i, len) ==
    IF i >= len THEN {Ok(m, 0)}
    ELSE UNION { IF g.res # "Ok" THEN {g}
                 ELSE IF i >= Len(scaler_row) THEN {Panic(m, "IndexOutOfBounds")}
                 ELSE UNION { IF s.res # "Ok" THEN {s}
                              ELSE replace_loop(s.m, to_row, scaler_row, i + 1, len)
                              : s \in set(m, to_row, i, g.val + scaler_row[i + 1]) }
                 : g \in get(m, to_row, i) }

\* ReplaceWithMultiple with from_row and to_row taken for each other
operate_ReplaceWithMultiple_swapped(m, scaler, from_row, to_row) ==
    IF to_row >= height(m) THEN {Panic(m, "IndexOutOfBounds")}
    ELSE LET scaler_row == ScaledRow(m.elements[to_row + 1], scaler)
         IN  IF from_row >= height(m) THEN {Panic(m, "IndexOutOfBounds")}
             ELSE replace_loop(m, from_row, scaler_row, 0,
                               Len(m.elements[from_row + 1]))

operate_ReplaceWithMultiple(m, scaler, from_row, to_row) ==
    IF from_row >= height(m) THEN {Panic(m, "IndexOutOfBounds")}
    ELSE LET scaler_row == ScaledRow(m.elements[from_row + 1], scaler)
         IN  IF to_row >= height(m) THEN {Panic(m, "IndexOutOfBounds")}
             ELSE replace_loop(m, to_row, scaler_row, 0,
                               Len(m.elements[to_row + 1]))

operate(m, op) ==
    CASE op.op = "SwapRows" -> operate_SwapRows(m, op.i, op.j)
      [] op.op = "Multiply" -> operate_Multiply(m, op.i, op.k)
      [] op.op = "ReplaceWithMultiple" ->
             operate_ReplaceWithMultiple(m, op.k, op.i, op.j)
      [] op.op = "ShowHelp" -> {Ok(m, 0)}

(***************************************************************************)
(* Text (src/src/operations.rs).  A &str is a sequence of characters, each *)
(* a one-character string: "S r1 2" is <<"S", " ", "r", "1", " ", "2">>.   *)
(***************************************************************************)
LowerOf ==
    ("A" :> "a") @@ ("B" :> "b") @@ ("C" :> "c") @@ ("D" :> "d") @@ ("E" :> "e")
    @@ ("F" :> "f") @@ ("G" :> "g") @@ ("H" :> "h") @@ ("I" :> "i") @@ ("J" :> "j")
    @@ ("K" :> "k") @@ ("L" :> "l") @@ ("M" :> "m") @@ ("N" :> "n") @@ ("O" :> "o")
    @@ ("P" :> "p") @@ ("Q" :> "q") @@ ("R" :> "r") @@ ("S" :> "s") @@ ("T" :> "t")
    @@ ("U" :> "u") @@ ("V" :> "v") @@ ("W" :> "w") @@ ("X" :> "x") @@ ("Y" :> "y")
    @@ ("Z" :> "z")

\* str::to_lowercase
to_lowercase(s) ==
    [i \in 1..Len(s) |-> IF s[i] \in DOMAIN LowerOf THEN LowerOf[s[i]] ELSE s[i]]

\* str::split_once(' '): None, or Some((before, after)) of the first separator
split_once(s, sep) ==
    IF \A i \in 1..Len(s) : s[i] # sep THEN None
    ELSE LET at == CHOOSE i \in 1..Len(s) :
                      s[i] = sep /\ \A j \in 1..(i - 1) : s[j] # sep
         IN  Some(<<SubSeq(s, 1, at - 1), SubSeq(s, at + 1, Len(s))>>)

IsNotR(c) == c # "r"

\* .chars().filter(|c| *c != 'r').collect::<String>()
filter_r(s) == SelectSeq(s, IsNotR)

DigitVal ==
    ("0" :> 0) @@ ("1" :> 1) @@ ("2" :> 2) @@ ("3" :> 3) @@ ("4" :> 4)
    @@ ("5" :> 5) @@ ("6" :> 6) @@ ("7" :> 7) @@ ("8" :> 8) @@ ("9" :> 9)

RECURSIVE digits_value(_, _, _)
digits_value(s, i, acc) ==
    IF i > Len(s) THEN acc ELSE digits_value(s, i + 1, acc * 10 + DigitVal[s[i]])

\* str::parse::<usize>: an optional '+', then one or more decimal digits.  (A
\* value above usize::MAX is an error too; it takes twenty digits.)
parse_usize(s) ==
    LET digits == IF Len(s) >= 1 /\ s[1] = "+" THEN Tail(s) ELSE s
    IN  IF Len(digits) = 0 \/ \E i \in 1..Len(digits) : digits[i] \notin DOMAIN DigitVal
        THEN None
        ELSE Some(digits_value(digits, 1, 0))

\* Fraction::from_str and str::parse::<f64> on the integer forms: an optional
\* '-', then one or more decimal digits
parse_scaler(s) ==
    LET neg == Len(s) >= 1 /\ s[1] = "-"
        digits == IF neg THEN Tail(s) ELSE s
    IN  IF Len(digits) = 0 \/ \E i \in 1..Len(digits) : digits[i] \notin DOMAIN DigitVal
        THEN None
        ELSE Some(IF neg THEN 0 - digits_value(digits, 1, 0)
                  ELSE digits_value(digits, 1, 0))

(***************************************************************************)
(* Operations::try_from (src/src/operations.rs).                           *)
(***************************************************************************)
ClearScreen == Call("ClearScreen", 0, 0, 0, <<>>)

ShowMatrix == Call("ShowMatrix", 0, 0, 0, <<>>)

ExitProgram == Call("ExitProgram", 0, 0, 0, <<>>)

NoOp == Call("", 0, 0, 0, <<>>)

\* Ok(operation)
POk(op) == [res |-> "Ok", op |-> op, kind |-> "", text |-> <<>>]

\* Err(format!(...)): the message's kind and the text it quotes
PErr(kind, text) == [res |-> "Err", op |-> NoOp, kind |-> kind, text |-> text]

\* "h" | "help" | "c" | "clear" | "q" | "exit" | "show"
BareKeywords ==
    { <<"h">>, <<"h", "e", "l", "p">>, <<"c">>, <<"c", "l", "e", "a", "r">>,
      <<"q">>, <<"e", "x", "i", "t">>, <<"s", "h", "o", "w">> }

\* an index token: lowercased, every 'r' filtered out, then parsed
parse_row(token) == parse_usize(filter_r(to_lowercase(token)))

\* the "s" arm
try_from_s(rest) ==
    LET sp == split_once(rest, " ")
    IN  IF sp = None THEN PErr("ExpectedTwoRows", rest)
        ELSE LET lhs == filter_r(to_lowercase(sp[1][1]))
                 rhs == filter_r(to_lowercase(sp[1][2]))
             IN  IF parse_usize(lhs) = None THEN PErr("ParseUsize", lhs)
                 ELSE IF parse_usize(rhs) = None THEN PErr("ParseUsize", rhs)
                 ELSE POk(SwapRows(parse_usize(lhs)[1], parse_usize(rhs)[1]))

\* the "m" arm
try_from_m(rest) ==
    LET sp == split_once(rest, " ")
    IN  IF sp = None THEN PErr("ExpectedScalerAndRow", rest)
        ELSE LET scaler == sp[1][1]
                 row == sp[1][2]
             IN  IF parse_scaler(scaler) = None THEN PErr("ParseScaler", scaler)
                 ELSE IF parse_row(row) = None THEN PErr("ParseRow", row)
                 ELSE POk(Multiply(parse_row(row)[1], parse_scaler(scaler)[1]))

\* the "r" arm
try_from_r(rest) ==
    LET sp == split_once(rest, " ")
    IN  IF sp = None THEN PErr("ExpectedScalerAndTwoRows", rest)
        ELSE LET scaler == sp[1][1]
                 rows == split_once(sp[1][2], " ")
             IN  IF rows = None THEN PErr("ExpectedTwoRows", sp[1][2])
                 ELSE LET scaler_row == rows[1][1]
                          target_row == rows[1][2]
                      IN  IF parse_scaler(scaler) = None
                          THEN PErr("ParseScaler", scaler)
                          ELSE IF parse_row(scaler_row) = None
                          THEN PErr("ParseRow", scaler_row)
                          ELSE IF parse_row(target_row) = None
                          THEN PErr("ParseRow", target_row)
                          ELSE POk(ReplaceWithMultiple(parse_scaler(scaler)[1],
                                                       parse_row(scaler_row)[1],
                                                       parse_row(target_row)[1]))

\* `match op.to_lowercase().as_str()`
try_from_match(op, rest) ==
    LET k == to_lowercase(op)
    IN  CASE k \in {<<"h">>, <<"h", "e", "l", "p">>} -> POk(ShowHelp)
          [] k \in {<<"c">>, <<"c", "l", "e", "a", "r">>} -> POk(ClearScreen)
          [] k = <<"s", "h", "o", "w">> -> POk(ShowMatrix)
          [] k \in {<<"q">>, <<"e", "x", "i", "t">>} -> POk(ExitProgram)
          [] k = <<"s">> -> try_from_s(rest)
          [] k = <<"m">> -> try_from_m(rest)
          [] k = <<"r">> -> try_from_r(rest)
          [] OTHER -> PErr("NotValidOperation", op)

\* try_from without the test for a line that has no space
try_from_no_bare_check(value) ==
    LET sp == split_once(value, " ")
    IN  IF sp = None
        THEN try_from_match(value, <<>>)
        ELSE try_from_match(sp[1][1], sp[1][2])

try_from(value) ==
    LET sp == split_once(value, " ")
        value_lower == to_lowercase(value)
    IN  IF sp = None
        THEN IF value_lower \in BareKeywords
             THEN try_from_match(value, <<>>)
             ELSE PErr("NotComplete", value_lower)
        ELSE try_from_match(sp[1][1], sp[1][2])

(***************************************************************************)
(* src/src/main.rs: its own Operations, try_from and Matrix (cells are f64 *)
(* there; the model keeps to the integers, which f64 holds exactly).       *)
(***************************************************************************)
ExchangeRows(lhs, rhs) == Call("ExchangeRows", lhs, rhs, 0, <<>>)

\* the "E" arm
main_try_from_E(rest) ==
    LET sp == split_once(rest, " ")
    IN  IF sp = None THEN PErr("ExpectedTwoRows", rest)
        ELSE LET lhs == filter_r(to_lowercase(sp[1][1]))
                 rhs == filter_r(to_lowercase(sp[1][2]))
             IN  IF parse_usize(lhs) = None THEN PErr("ParseUsize", lhs)
                 ELSE IF parse_usize(rhs) = None THEN PErr("ParseUsize", rhs)
                 ELSE POk(ExchangeRows(parse_usize(lhs)[1], parse_usize(rhs)[1]))

\* the "M" arm
main_try_from_M(rest) ==
    LET sp == split_once(rest, " ")
    IN  IF sp = None THEN PErr("ExpectedScalerAndRow", rest)
        ELSE LET scaler == sp[1][1]
                 row == sp[1][2]
             IN  IF parse_scaler(scaler) = None THEN PErr("ParseScaler", scaler)
                 ELSE IF parse_row(row) = None THEN PErr("ParseRow", row)
                 ELSE POk(Multiply(parse_row(row)[1], parse_scaler(scaler)[1]))

\* the "R" arm: both elements of the tuple parse `from_row`; the second one's
\* error message quotes `to_row`
main_try_from_R(rest) ==
    LET sp == split_once(rest, " ")
    IN  IF sp = None THEN PErr("ExpectedScalerAndTwoRows", rest)
        ELSE LET scaler == sp[1][1]
                 rows == split_once(sp[1][2], " ")
             IN  IF rows = None THEN PErr("ExpectedTwoRows", sp[1][2])
                 ELSE LET from_row == rows[1][1]
                          to_row == rows[1][2]
                      IN  IF parse_scaler(scaler) = None
                          THEN PErr("ParseScaler", scaler)
                          ELSE IF parse_row(from_row) = None
                          THEN PErr("ParseRow", from_row)
                          ELSE IF parse_row(from_row) = None
                          THEN PErr("ParseRow", to_row)
                          ELSE POk(ReplaceWithMultiple(parse_scaler(scaler)[1],
                                                       parse_row(from_row)[1],
                                                       parse_row(from_row)[1]))

main_try_from(value) ==
    LET sp == split_once(value, " ")
    IN  IF sp = None THEN PErr("NotValidInstruction", value)
        ELSE LET op == sp[1][1]
                 rest == sp[1][2]
             IN  CASE op = <<"E">> -> main_try_from_E(rest)
                   [] op = <<"M">> -> main_try_from_M(rest)
                   [] op = <<"R">> -> main_try_from_R(rest)
                   [] OTHER -> PErr("NotValidOperation", op)

\* Matrix::checksum(x, y, n) of main.rs
main_checksum(x, y, n) == (x + y) * n

RECURSIVE main_from_iter_row(_, _, _)
main_from_iter_row(i, row, j) ==
    IF j >= Len(row) THEN 0
    ELSE main_checksum(i, j, row[j + 1]) + main_from_iter_row(i, row, j + 1)

RECURSIVE main_from_iter_sum(_, _)
main_from_iter_sum(rows, i) ==
    IF i >= Len(rows) THEN 0
    ELSE main_from_iter_row(i, rows[i + 1], 0) + main_from_iter_sum(rows, i + 1)

\* Matrix::from_iter of main.rs: every row is pushed
main_from_iter(rows) == Matrix(rows, main_from_iter_sum(rows, 0))

\* Matrix::operate of main.rs: Vec::swap and the indexing panic on a row out
\* of range; the checksum is left alone
main_operate(m, op) ==
    LET h == Len(m.elements)
    IN  CASE op.op = "ExchangeRows" ->
               IF op.i >= h \/ op.j >= h THEN {Panic(m, "IndexOutOfBounds")}
               ELSE {Ok(Matrix(SwapElements(m.elements, op.i, op.j), m.checksum), 0)}
          [] op.op = "Multiply" ->
               IF op.i >= h THEN {Panic(m, "IndexOutOfBounds")}
               ELSE {Ok(Matrix([m.elements EXCEPT
                                  ![op.i + 1] = ScaledRow(@, op.k)],
                               m.checksum), 0)}
          [] op.op = "ReplaceWithMultiple" ->
               IF op.i >= h \/ op.j >= h THEN {Panic(m, "IndexOutOfBounds")}
               ELSE LET scaler_row == ScaledRow(m.elements[op.i + 1], op.k)
                        to_row == m.elements[op.j + 1]
                    IN  IF Len(to_row) > Len(scaler_row)
                        THEN {Panic(m, "IndexOutOfBounds")}
                        ELSE {Ok(Matrix([m.elements EXCEPT ![op.j + 1] =
                                           [i \in 1..Len(to_row) |->
                                              to_row[i] + scaler_row[i]]],
                                        m.checksum), 0)}

(***************************************************************************)
(* The state machine: one Matrix, constructed by new() or from_iter, then  *)
(* one method call per step.  `pre` is the matrix before the last call and *)
(* `last` the call and what it returned.  A panic ends the process.        *)
(***************************************************************************)
cur == Matrix(elements, checksum)

\* the input side: where the program is, the line last read, what try_from
\* returned for it and what was printed for it
Io(pc, line, parsed, out) == [pc |-> pc, line |-> line, parsed |-> parsed, out |-> out]

\* no line is read when the methods of Matrix are called directly
NoIo == Io("calls", <<>>, POk(NoOp), "")

Returned(call, o) == [call |-> call, res |-> o.res, err |-> o.err, val |-> o.val]

\* the row lists handed to from_iter: one row, or two rows (of any two widths)
InitLists(pool) ==
    {<<r>> : r \in pool} \cup {<<r1, r2>> : r1 \in pool, r2 \in pool}

InitOver(pool) ==
    /\ nops = 0
    /\ io = NoIo
    /\ other = new
    /\ \/ /\ elements = new.elements
          /\ checksum = new.checksum
          /\ last = Returned(Call("new", 0, 0, 0, <<>>), Ok(new, 0))
       \/ \E rows \in InitLists(pool) :
            \E o \in from_iter(rows) :
               /\ o.res = "Ok"
               /\ elements = o.m.elements
               /\ checksum = o.m.checksum
               /\ last = Returned(Call("from_iter", 0, 0, 0, <<>>), o)
    /\ pre = Matrix(elements, checksum)

\* the row and column indices offered: every valid one and the first invalid one
RowIdx == 0..Len(elements)

ColIdx == 0..(IF Len(elements) = 0 THEN 0 ELSE Len(elements[1]))

Alive == last.res # "Panic"

\* the call returns outcome o: the matrix becomes o.m
Step(call, o, counted) ==
    /\ elements' = o.m.elements
    /\ checksum' = o.m.checksum
    /\ pre' = cur
    /\ last' = Returned(call, o)
    /\ nops' = IF counted THEN nops + 1 ELSE nops
    /\ io' = io
    /\ other' = other

Do_insert_row(row, maxHeight, maxOps) ==
    /\ Alive
    /\ \E o \in insert_row(cur, row) :
          /\ IF o.res = "Ok" THEN height(cur) < maxHeight ELSE nops < maxOps
          /\ Step(Call("insert_row", 0, 0, 0, row), o, o.res # "Ok")

Do_get(x, y, maxOps) ==
    /\ Alive
    /\ nops < maxOps
    /\ \E o \in get(cur, x, y) : Step(Call("get", x, y, 0, <<>>), o, TRUE)

Do_set(x, y, value, maxOps) ==
    /\ Alive
    /\ nops < maxOps
    /\ \E o \in set(cur, x, y, value) : Step(Call("set", x, y, value, <<>>), o, TRUE)

Do_operate(op, maxOps) ==
    /\ Alive
    /\ nops < maxOps
    /\ \E o \in operate(cur, op) : Step(op, o, TRUE)

NextOver(pool, maxHeight, maxOps) ==
    \/ \E row \in pool : Do_insert_row(row, maxHeight, maxOps)
    \/ \E x \in RowIdx, y \in ColIdx : Do_get(x, y, maxOps)
    \/ \E x \in RowIdx, y \in ColIdx, value \in SetVals : Do_set(x, y, value, maxOps)
    \/ \E lhs \in RowIdx, rhs \in RowIdx : Do_operate(SwapRows(lhs, rhs), maxOps)
    \/ \E row \in RowIdx, scaler \in Scalers :
          Do_operate(Multiply(row, scaler), maxOps)
    \/ \E from_row \in RowIdx, to_row \in RowIdx, scaler \in Scalers :
          Do_operate(ReplaceWithMultiple(scaler, from_row, to_row), maxOps)
    \/ Do_operate(ShowHelp, maxOps)

Init == InitOver(SmallRows)

Next == NextOver(SmallRows, MaxHeight, MaxOps)

Spec == Init /\ [][Next]_vars

\* the session of the 3 x 3 example: the same calls, its rows as the pool
InitTrace == InitOver(TraceRows)

NextTrace == NextOver(TraceRows, TraceHeight, TraceOps)

SpecTrace == InitTrace /\ [][NextTrace]_vars

(***************************************************************************)
(* Input lines.                                                            *)
(***************************************************************************)
\* tokens joined by single spaces
RECURSIVE Join(_, _)
Join(tokens, i) ==
    IF i > Len(tokens) THEN <<>>
    ELSE IF i = Len(tokens) THEN tokens[i]
    ELSE tokens[i] \o <<" ">> \o Join(tokens, i + 1)

Line(tokens) == Join(tokens, 1)

\* index tokens: 0, 1, r1, R2, 1r2, 2r, r, -1, a
IndexTokens ==
    { <<"0">>, <<"1">>, <<"r", "1">>, <<"R", "2">>, <<"1", "r", "2">>,
      <<"2", "r">>, <<"r">>, <<"-", "1">>, <<"a">> }

\* scaler tokens: 2, -1, x
ScalerTokens == { <<"2">>, <<"-", "1">>, <<"x">> }

\* lines of a single token, keywords and others
BareLines ==
    { <<"h">>, <<"H">>, <<"h", "e", "l", "p">>, <<"H", "E", "L", "P">>,
      <<"H", "e", "l", "p">>, <<"c">>, <<"C">>, <<"c", "l", "e", "a", "r">>,
      <<"C", "L", "E", "A", "R">>, <<"s", "h", "o", "w">>, <<"S", "H", "O", "W">>,
      <<"q">>, <<"Q">>, <<"e", "x", "i", "t">>, <<"E", "x", "i", "t">>,
      <<"r", "e", "s", "t", "a", "r", "t">>, <<"R", "E", "S", "T", "A", "R", "T">>,
      <<"b", "o", "g", "u", "s">>, <<"B", "o", "g", "u", "s">>,
      <<"S">>, <<"m">>, <<"R">>, <<"1">>, <<>> }

\* the lines given to Operations::try_from of operations.rs
ParseLines ==
    BareLines
    \cup {Line(<<k, a>>) : k \in {<<"S">>, <<"s">>, <<"M">>, <<"R">>},
                           a \in IndexTokens \cup ScalerTokens}
    \cup {Line(<<k, a, b>>) : k \in {<<"S">>, <<"s">>},
                              a \in IndexTokens, b \in IndexTokens}
    \cup {Line(<<k, c, a>>) : k \in {<<"M">>, <<"m">>, <<"R">>},
                              c \in ScalerTokens, a \in IndexTokens}
    \cup {Line(<<k, c, a, b>>) : k \in {<<"R">>, <<"r">>}, c \in ScalerTokens,
                                 a \in IndexTokens, b \in IndexTokens}
    \cup { Line(<<<<"x">>, <<"1">>>>), Line(<<<<"E">>, <<"0">>, <<"1">>>>),
           Line(<<<<"h", "e", "l", "p">>, <<"m", "e">>>>),
           Line(<<<<"b", "o", "g", "u", "s">>, <<"1">>, <<"2">>>>),
           Line(<<<<"S">>, <<"1">>, <<"2">>, <<"0">>>>) }

\* the lines typed into main: rows 0..2 are in its 3 x 3 matrix, row 3 is not
MainRowTokens == { <<"0">>, <<"R", "1">>, <<"2">>, <<"3">> }

MainLines ==
    {Line(<<<<"E">>, a, b>>) : a \in MainRowTokens, b \in MainRowTokens}
    \cup {Line(<<<<"M">>, c, a>>) : c \in {<<"2">>, <<"x">>}, a \in MainRowTokens}
    \cup {Line(<<<<"R">>, c, a, b>>) : c \in {<<"2">>, <<"-", "1">>},
                                       a \in MainRowTokens, b \in MainRowTokens}
    \cup { <<"b", "o", "g", "u", "s">>, <<"e", "x", "i", "t">>,
           Line(<<<<"E">>, <<"1">>>>), Line(<<<<"R">>, <<"2">>, <<"1">>>>),
           Line(<<<<"S">>, <<"0">>, <<"1">>>>) }

(***************************************************************************)
(* Operations::try_from of operations.rs: a line is given, then parsed.    *)
(***************************************************************************)
InitParse ==
    /\ elements = new.elements
    /\ checksum = new.checksum
    /\ pre = new
    /\ last = Returned(Call("new", 0, 0, 0, <<>>), Ok(new, 0))
    /\ nops = 0
    /\ other = new
    /\ \E line \in ParseLines : io = Io("read", line, POk(NoOp), "")

Do_try_from ==
    /\ io.pc = "read"
    /\ io' = Io("parsed", io.line, try_from(io.line), "")
    /\ UNCHANGED <<elements, checksum, pre, last, nops, other>>

NextParse == Do_try_from

SpecParse == InitParse /\ [][NextParse]_vars

(***************************************************************************)
(* main of main.rs: the 3 x 3 matrix, then one iteration of the `while let`*)
(* loop per input line.  A panic in operate ends the process.              *)
(***************************************************************************)
InitMain ==
    /\ elements = main_from_iter(<<<<1, 2, 3>>, <<4, 5, 6>>, <<7, 8, 9>>>>).elements
    /\ checksum = main_from_iter(<<<<1, 2, 3>>, <<4, 5, 6>>, <<7, 8, 9>>>>).checksum
    /\ pre = Matrix(elements, checksum)
    /\ last = Returned(Call("from_iter", 0, 0, 0, <<>>), Ok(pre, 0))
    /\ nops = 0
    /\ io = Io("prompt", <<>>, POk(NoOp), "Matrix")
    /\ other = new

\* `Some(Ok(line))`: try_from fails, "Error: ..." is printed and the loop
\* continues; or the operation is printed and applied, and the matrix printed
main_line(line) ==
    /\ io.pc = "prompt"
    /\ nops < MaxLines
    /\ nops' = nops + 1
    /\ pre' = cur
    /\ other' = other
    /\ LET parsed == main_try_from(line)
       IN  IF parsed.res = "Err"
           THEN /\ io' = Io("prompt", line, parsed, "Error")
                /\ UNCHANGED <<elements, checksum, last>>
           ELSE \E o \in main_operate(cur, parsed.op) :
                   /\ elements' = o.m.elements
                   /\ checksum' = o.m.checksum
                   /\ last' = Returned(parsed.op, o)
                   /\ io' = IF o.res = "Panic"
                            THEN Io("panicked", line, parsed, "Panic")
                            ELSE Io("prompt", line, parsed, "Matrix")

\* the `while let` pattern fails: stdin is at its end
main_eof ==
    /\ io.pc = "prompt"
    /\ io' = [io EXCEPT !.pc = "exited"]
    /\ UNCHANGED <<elements, checksum, pre, last, nops, other>>

NextMain ==
    \/ \E line \in MainLines : main_line(line)
    \/ main_eof

SpecMain == InitMain /\ [][NextMain]_vars

(***************************************************************************)
(* PartialEq for Matrix: two matrices are built, each is changed by calls  *)
(* that succeed, and then `self == other` is evaluated.                    *)
(***************************************************************************)
\* the matrices new() and from_iter() return without an error
Built(pool) ==
    {new} \cup {o.m : o \in {q \in UNION {from_iter(rows) : rows \in InitLists(pool)} :
                               q.res = "Ok"}}

InitEq ==
    /\ nops = 0
    /\ io = NoIo
    /\ \E m \in Built(SmallRows) :
          /\ elements = m.elements
          /\ checksum = m.checksum
          /\ pre = m
          /\ last = Returned(Call("from_iter", 0, 0, 0, <<>>), Ok(m, 0))
    /\ other \in Built(SmallRows)

\* the calls offered on matrix m, each with the outcomes the method gives
CallsOn(m) ==
    LET rows == 0..Len(m.elements)
        cols == 0..(IF Len(m.elements) = 0 THEN 0 ELSE Len(m.elements[1]))
    IN  {[call |-> Call("insert_row", 0, 0, 0, row), outs |-> insert_row(m, row)] :
            row \in SmallRows}
        \cup {[call |-> Call("set", x, y, value, <<>>), outs |-> set(m, x, y, value)] :
                 x \in rows, y \in cols, value \in SetVals}
        \cup {[call |-> op, outs |-> operate(m, op)] :
                 op \in {SwapRows(lhs, rhs) : lhs \in rows, rhs \in rows}
                      \cup {Multiply(row, scaler) : row \in rows, scaler \in Scalers}
                      \cup {ReplaceWithMultiple(scaler, from_row, to_row) :
                               scaler \in Scalers, from_row \in rows, to_row \in rows}}

\* a call on self that returns Ok
Eq_call_self ==
    /\ io.pc = "calls"
    /\ nops < EqOps
    /\ \E c \in CallsOn(cur) : \E o \in c.outs :
          /\ o.res = "Ok"
          /\ Step(c.call, o, TRUE)

\* a call on the other matrix that returns Ok
Eq_call_other ==
    /\ io.pc = "calls"
    /\ nops < EqOps
    /\ \E c \in CallsOn(other) : \E o \in c.outs :
          /\ o.res = "Ok"
          /\ other' = o.m
          /\ nops' = nops + 1
          /\ UNCHANGED <<elements, checksum, pre, last, io>>

\* `self == other`
Do_eq ==
    /\ io.pc = "calls"
    /\ last' = Returned(Call("eq", 0, 0, 0, <<>>), Ok(cur, eq(cur, other)))
    /\ pre' = cur
    /\ io' = [io EXCEPT !.pc = "compared"]
    /\ UNCHANGED <<elements, checksum, nops, other>>

NextEq ==
    \/ Eq_call_self
    \/ Eq_call_other
    \/ Do_eq

SpecEq == InitEq /\ [][NextEq]_vars

(***************************************************************************)
(* Properties.                                                             *)
(***************************************************************************)
Cells(els) ==
    UNION { {<<r, c>> : c \in 0..(Len(els[r + 1]) - 1)} : r \in 0..(Len(els) - 1) }

RECURSIVE SumTerms(_, _)
SumTerms(S, els) ==
    IF S = {} THEN 0
    ELSE LET p == CHOOSE q \in S : TRUE
         IN  (p[1] + p[2]) * els[p[1] + 1][p[2] + 1] + SumTerms(S \ {p}, els)

\* the checksum formula, the sum over cells of (row + col) * value, from scratch
Recomputed(els) == SumTerms(Cells(els), els)

Unchanged == elements = pre.elements /\ checksum = pre.checksum

LastOp == last.call.op

Succeeded == last.res = "Ok"

\* C1: after every successful insert_row, set, SwapRows, Multiply or
\* ReplaceWithMultiple on a matrix whose checksum matched its elements, the
\* checksum equals the formula recomputed from the elements.
C1_ChecksumConsistent ==
    ( /\ LastOp \in {"new", "from_iter", "insert_row", "set", "SwapRows",
                     "Multiply", "ReplaceWithMultiple"}
      /\ Succeeded
      /\ pre.checksum = Recomputed(pre.elements) )
    => checksum = Recomputed(elements)

\* C2: an insert_row rejected for its width leaves elements and checksum as
\* they were before the call.
C2_RejectedInsertAtomic ==
    (LastOp = "insert_row" /\ last.res = "Err") => Unchanged

\* C3: every row of elements has the length of row 0.
C3_Rectangular ==
    \A r \in 1..Len(elements) : Len(elements[r]) = Len(elements[1])

\* C3 witness: a row of another width has just been rejected by a matrix of
\* two rows.
C3_Witness ==
    /\ LastOp = "insert_row"
    /\ last.res = "Err"
    /\ Len(elements) >= 2
    /\ Len(last.call.row) # Len(elements[1])

\* the matrix before the call had at least one row, and its rows were not empty
PreNonEmpty == Len(pre.elements) >= 1 /\ Len(pre.elements[1]) >= 1

PreHeight == Len(pre.elements)

PreWidth == IF Len(pre.elements) = 0 THEN 0 ELSE Len(pre.elements[1])

\* the last call was get or set with the row or the column out of range
CellOutOfRange ==
    /\ LastOp \in {"get", "set"}
    /\ (last.call.i >= PreHeight \/ last.call.j >= PreWidth)

\* the last call was SwapRows with lhs or rhs out of range
SwapOutOfRange ==
    /\ LastOp = "SwapRows"
    /\ (last.call.i >= PreHeight \/ last.call.j >= PreHeight)

\* C4: on a matrix with at least one non-empty row, get and set with an index
\* out of range and SwapRows with a row out of range return an error and leave
\* elements and checksum unchanged.
C4_OutOfRangeIsError ==
    (PreNonEmpty /\ (CellOutOfRange \/ SwapOutOfRange))
    => (last.res = "Err" /\ Unchanged)

\* C4 witness: set was called with a valid row and the column one past the last.
C4_Witness ==
    /\ PreNonEmpty
    /\ LastOp = "set"
    /\ last.call.i < PreHeight
    /\ last.call.j = PreWidth

\* the last call was Multiply or ReplaceWithMultiple with a row out of range
RowOpOutOfRange ==
    \/ LastOp = "Multiply" /\ last.call.i >= PreHeight
    \/ /\ LastOp = "ReplaceWithMultiple"
       /\ (last.call.i >= PreHeight \/ last.call.j >= PreHeight)

\* C5: Multiply and ReplaceWithMultiple with a row out of range return an
\* error value naming the invalid row, and leave elements and checksum unchanged.
C5_RowOpOutOfRangeIsError ==
    RowOpOutOfRange
    => (last.res = "Err" /\ last.err.kind = "InvalidRow" /\ Unchanged)

\* C6: on a matrix with zero rows get, set and SwapRows return an error that
\* reports the empty matrix; on rows of width 0 get and set return an error;
\* neither `height - 1` nor `width - 1` underflows.
C6_DegenerateIsError ==
    /\ (PreHeight = 0 /\ LastOp \in {"get", "set", "SwapRows"})
       => (last.res = "Err" /\ ~last.err.wrapped /\ last.err.kind = "EmptyRow")
    /\ (PreHeight >= 1 /\ PreWidth = 0 /\ LastOp \in {"get", "set"})
       => (last.res = "Err" /\ ~last.err.wrapped)

\* C7: a successful set(r, c, v) stores v in cell (r, c), leaves the other cells
\* as they were, and changes the checksum by (r + c) * v - (r + c) * old.
C7_SetDelta ==
    (LastOp = "set" /\ Succeeded)
    => LET r == last.call.i
           c == last.call.j
           v == last.call.k
           old == pre.elements[r + 1][c + 1]
       IN  /\ elements = StoreCell(pre.elements, r, c, v)
           /\ checksum = pre.checksum + (r + c) * v - (r + c) * old

\* C8: after a successful SwapRows{a, b}, a second SwapRows{a, b} returns the
\* elements and the checksum from before the first; SwapRows{a, a} changes neither.
C8_SwapInvolution ==
    (LastOp = "SwapRows" /\ Succeeded)
    => /\ operate(cur, SwapRows(last.call.i, last.call.j)) = {Ok(pre, 0)}
       /\ (last.call.i = last.call.j => Unchanged)

\* C8 witness: two different rows with different contents have been swapped.
C8_Witness ==
    /\ LastOp = "SwapRows"
    /\ Succeeded
    /\ last.call.i # last.call.j
    /\ elements # pre.elements

\* C9: ReplaceWithMultiple{k, r, r} sets every cell of row r to (1 + k) times
\* its value before the call and leaves the other rows as they were.
C9_ReplaceWithSelf ==
    (LastOp = "ReplaceWithMultiple" /\ Succeeded /\ last.call.i = last.call.j)
    => /\ Len(elements) = Len(pre.elements)
       /\ \A x \in 1..Len(elements) :
             IF x = last.call.i + 1
             THEN /\ Len(elements[x]) = Len(pre.elements[x])
                  /\ \A y \in 1..Len(elements[x]) :
                        elements[x][y] = (1 + last.call.k) * pre.elements[x][y]
             ELSE elements[x] = pre.elements[x]

\* C9 witness: a row with a non-zero cell has been replaced with itself plus a
\* non-zero multiple of itself, in a matrix of at least two rows.
C9_Witness ==
    /\ LastOp = "ReplaceWithMultiple"
    /\ Succeeded
    /\ last.call.i = last.call.j
    /\ last.call.k # 0
    /\ Len(elements) >= 2
    /\ \E y \in 1..Len(pre.elements[last.call.i + 1]) :
          pre.elements[last.call.i + 1][y] # 0

\* C10: rows [1,2,3], [4,5,6], [7,8,9] inserted into the empty matrix give
\* checksum 114; SwapRows{0, 2} then gives [7,8,9]/[4,5,6]/[1,2,3] and leaves
\* the checksum at 114; Multiply{row: 0, scaler: 2} then makes row 0 [14,16,18]
\* and increases the checksum by 26.
C10_EndToEnd ==
    LET built == <<<<1, 2, 3>>, <<4, 5, 6>>, <<7, 8, 9>>>>
        swapped == <<<<7, 8, 9>>, <<4, 5, 6>>, <<1, 2, 3>>>>
    IN  /\ (LastOp = "insert_row" /\ Succeeded /\ elements = built
            /\ pre.checksum = Recomputed(pre.elements))
           => checksum = 114
        /\ (pre = Matrix(built, 114) /\ last.call = SwapRows(0, 2))
           => (Succeeded /\ elements = swapped /\ checksum = 114)
        /\ (pre = Matrix(swapped, 114) /\ last.call = Multiply(0, 2))
           => /\ Succeeded
              /\ elements = <<<<14, 16, 18>>, <<4, 5, 6>>, <<1, 2, 3>>>>
              /\ checksum = pre.checksum + 26

\* the sum of the cells of a row
RECURSIVE SumRow(_, _)
SumRow(row, S) ==
    IF S = {} THEN 0
    ELSE LET y == CHOOSE z \in S : TRUE IN row[y] + SumRow(row, S \ {y})

RowTotal(row) == SumRow(row, DOMAIN row)

\* C17: a successful SwapRows{lhs, rhs} exchanges rows lhs and rhs, leaves the
\* other rows, the height and the width as they were, and changes the checksum
\* by (rhs - lhs) * (sum of old row lhs - sum of old row rhs).
C17_SwapFrame ==
    (LastOp = "SwapRows" /\ Succeeded)
    => LET lhs == last.call.i
           rhs == last.call.j
       IN  /\ Len(elements) = Len(pre.elements)
           /\ elements[lhs + 1] = pre.elements[rhs + 1]
           /\ elements[rhs + 1] = pre.elements[lhs + 1]
           /\ \A x \in 1..Len(elements) :
                 (x # lhs + 1 /\ x # rhs + 1) => elements[x] = pre.elements[x]
           /\ \A x \in 1..Len(elements) : Len(elements[x]) = Len(pre.elements[1])
           /\ checksum = pre.checksum
                 + (rhs - lhs) * (RowTotal(pre.elements[lhs + 1])
                                  - RowTotal(pre.elements[rhs + 1]))

\* the terms (h + j) * values[j] of the columns in S (j counted from 0)
RECURSIVE SumNewRow(_, _, _)
SumNewRow(h, values, S) ==
    IF S = {} THEN 0
    ELSE LET y == CHOOSE z \in S : TRUE
         IN  (h + (y - 1)) * values[y] + SumNewRow(h, values, S \ {y})

\* C18: a successful insert_row(values) on a matrix of height h appends values
\* as row h, leaves rows 0..h-1 as they were and adds to the checksum the sum
\* over columns j of (h + j) * values[j]; so a checksum that matched the
\* elements before the call matches them after it.
C18_InsertRow ==
    (LastOp = "insert_row" /\ Succeeded)
    => LET h == Len(pre.elements)
           values == last.call.row
       IN  /\ Len(elements) = h + 1
           /\ elements[h + 1] = values
           /\ \A x \in 1..h : elements[x] = pre.elements[x]
           /\ checksum = pre.checksum + SumNewRow(h, values, DOMAIN values)
           /\ (pre.checksum = Recomputed(pre.elements)
               => checksum = Recomputed(elements))

\* C18 witness: a row with a non-zero cell has been appended below another row.
C18_Witness ==
    /\ LastOp = "insert_row"
    /\ Succeeded
    /\ Len(pre.elements) >= 1
    /\ \E y \in DOMAIN last.call.row : last.call.row[y] # 0

\* C19: with scaler_row # target_row, ReplaceWithMultiple{k, scaler_row,
\* target_row} sets every cell of target_row to its old value plus k times the
\* cell of scaler_row in the same column, and leaves every other row as it was.
C19_ReplaceOtherRow ==
    (LastOp = "ReplaceWithMultiple" /\ Succeeded /\ last.call.i # last.call.j)
    => LET from_row == last.call.i + 1
           to_row == last.call.j + 1
       IN  /\ Len(elements) = Len(pre.elements)
           /\ \A x \in 1..Len(elements) :
                 IF x = to_row
                 THEN /\ Len(elements[x]) = Len(pre.elements[x])
                      /\ \A y \in 1..Len(elements[x]) :
                            elements[x][y] =
                               pre.elements[x][y]
                               + last.call.k * pre.elements[from_row][y]
                 ELSE elements[x] = pre.elements[x]

\* C19 witness: a non-zero multiple of a row with a non-zero cell has been added
\* into another row.
C19_Witness ==
    /\ LastOp = "ReplaceWithMultiple"
    /\ Succeeded
    /\ last.call.i # last.call.j
    /\ last.call.k # 0
    /\ \E y \in 1..Len(pre.elements[last.call.i + 1]) :
          pre.elements[last.call.i + 1][y] # 0

\* C20: Multiply{row, k} on a valid row succeeds, for k = 0 too, sets every cell
\* of the row to its old value times k and leaves the other rows as they were;
\* with k = 0 the row is all zero.
C20_Multiply ==
    (LastOp = "Multiply" /\ last.call.i < PreHeight)
    => /\ Succeeded
       /\ Len(elements) = Len(pre.elements)
       /\ \A x \in 1..Len(elements) :
             IF x = last.call.i + 1
             THEN /\ Len(elements[x]) = Len(pre.elements[x])
                  /\ \A y \in 1..Len(elements[x]) :
                        /\ elements[x][y] = pre.elements[x][y] * last.call.k
                        /\ (last.call.k = 0 => elements[x][y] = 0)
             ELSE elements[x] = pre.elements[x]

\* C20 witness: a row with a non-zero cell has been multiplied by zero, in a
\* matrix of at least two rows.
C20_Witness ==
    /\ LastOp = "Multiply"
    /\ Succeeded
    /\ last.call.k = 0
    /\ Len(elements) >= 2
    /\ \E y \in 1..Len(pre.elements[last.call.i + 1]) :
          pre.elements[last.call.i + 1][y] # 0

(***************************************************************************)
(* Properties of the parser and of the session.                            *)
(***************************************************************************)
\* the space-separated tokens of a line
RECURSIVE Tokens(_)
Tokens(s) ==
    IF \A i \in 1..Len(s) : s[i] # " " THEN <<s>>
    ELSE LET at == CHOOSE i \in 1..Len(s) :
                      s[i] = " " /\ \A j \in 1..(i - 1) : s[j] # " "
         IN  <<SubSeq(s, 1, at - 1)>> \o Tokens(SubSeq(s, at + 1, Len(s)))

AllDigits(s) == Len(s) >= 1 /\ \A i \in 1..Len(s) : s[i] \in DOMAIN DigitVal

\* the grammar's index token: one optional leading r or R, then a non-negative
\* integer; <<>> when the token is not of that form, <<n>> when it is
GrammarIndex(token) ==
    LET t == IF Len(token) >= 1 /\ token[1] \in {"r", "R"} THEN Tail(token)
             ELSE token
    IN  IF AllDigits(t) THEN <<digits_value(t, 1, 0)>> ELSE <<>>

\* the grammar's scaler token, on the integer forms
GrammarScaler(token) ==
    LET t == IF Len(token) >= 1 /\ token[1] = "-" THEN Tail(token) ELSE token
    IN  IF ~AllDigits(t) THEN <<>>
        ELSE IF t = token THEN <<digits_value(t, 1, 0)>>
        ELSE <<0 - digits_value(t, 1, 0)>>

\* a line has been given to the parser and io.parsed is what it returned
Handled == io.pc = "parsed" \/ (io.pc \in {"prompt", "panicked"} /\ nops > 0)

LineTokens == Tokens(io.line)

Keyword == to_lowercase(LineTokens[1])

\* C12: a line S a b (the keyword in either case) parses to SwapRows{a, b}
\* when a and b are index tokens of the grammar, and is a parse error when
\* either is not; with fewer than two tokens after the keyword it is a parse
\* error.
C12_SwapParsing ==
    (io.pc = "parsed" /\ Keyword = <<"s">>)
    => /\ Len(LineTokens) < 3 => io.parsed.res = "Err"
       /\ Len(LineTokens) = 3 =>
             LET a == GrammarIndex(LineTokens[2])
                 b == GrammarIndex(LineTokens[3])
             IN  IF a # <<>> /\ b # <<>>
                 THEN io.parsed = POk(SwapRows(a[1], b[1]))
                 ELSE io.parsed.res = "Err"

\* C13: a line R k a b with a valid scaler and valid index tokens parses to
\* ReplaceWithMultiple with scaler_row the index of a and target_row the index
\* of b; with fewer than three operands it is a parse error.
C13_ReplaceParsing ==
    (Handled /\ LineTokens[1] = <<"R">>)
    => /\ Len(LineTokens) < 4 => io.parsed.res = "Err"
       /\ Len(LineTokens) = 4 =>
             LET k == GrammarScaler(LineTokens[2])
                 a == GrammarIndex(LineTokens[3])
                 b == GrammarIndex(LineTokens[4])
             IN  (k # <<>> /\ a # <<>> /\ b # <<>>)
                 => io.parsed = POk(ReplaceWithMultiple(k[1], a[1], b[1]))

\* the operation the grammar gives a bare keyword, <<>> for any other text
GrammarBare(k) ==
    CASE k \in {<<"h">>, <<"h", "e", "l", "p">>} -> <<"ShowHelp">>
      [] k \in {<<"c">>, <<"c", "l", "e", "a", "r">>} -> <<"ClearScreen">>
      [] k = <<"s", "h", "o", "w">> -> <<"ShowMatrix">>
      [] k \in {<<"q">>, <<"e", "x", "i", "t">>} -> <<"ExitProgram">>
      [] k = <<"r", "e", "s", "t", "a", "r", "t">> -> <<"Restart">>
      [] OTHER -> <<>>

\* C14: a line that is a single keyword, in any letter case, parses to the
\* keyword's operation: h/help ShowHelp, c/clear ClearScreen, show ShowMatrix,
\* q/exit ExitProgram, restart Restart.
C14_BareKeywords ==
    (io.pc = "parsed" /\ Len(LineTokens) = 1 /\ GrammarBare(Keyword) # <<>>)
    => /\ io.parsed.res = "Ok"
       /\ io.parsed.op = Call(GrammarBare(Keyword)[1], 0, 0, 0, <<>>)

\* the index tokens of a well-formed S, M or R command with a valid scaler
CommandIndexTokens ==
    CASE Keyword = <<"s">> /\ Len(LineTokens) = 3 -> <<LineTokens[2], LineTokens[3]>>
      [] Keyword = <<"m">> /\ Len(LineTokens) = 3
           /\ GrammarScaler(LineTokens[2]) # <<>> -> <<LineTokens[3]>>
      [] Keyword = <<"r">> /\ Len(LineTokens) = 4
           /\ GrammarScaler(LineTokens[2]) # <<>> -> <<LineTokens[3], LineTokens[4]>>
      [] OTHER -> <<>>

\* C15: in S, M and R commands only one leading r/R is stripped from an index
\* token: a token that is not then a non-negative integer (1r2, 2r, r) is a
\* parse error, and a token rN or N parses to the index N.
C15_IndexTokens ==
    (io.pc = "parsed" /\ CommandIndexTokens # <<>>)
    => LET toks == CommandIndexTokens
       IN  IF \E n \in 1..Len(toks) : GrammarIndex(toks[n]) = <<>>
           THEN io.parsed.res = "Err"
           ELSE /\ io.parsed.res = "Ok"
                /\ io.parsed.op.i = GrammarIndex(toks[1])[1]
                /\ Len(toks) = 2 => io.parsed.op.j = GrammarIndex(toks[2])[1]

\* the leading tokens the grammar knows
GrammarKeywords ==
    { <<"s">>, <<"m">>, <<"r">>, <<"h">>, <<"h", "e", "l", "p">>, <<"c">>,
      <<"c", "l", "e", "a", "r">>, <<"s", "h", "o", "w">>, <<"q">>,
      <<"e", "x", "i", "t">>, <<"r", "e", "s", "t", "a", "r", "t">> }

\* C16: try_from returns an operation or an error for every line; a line with
\* no space that is not a bare keyword is an error that quotes the line, and a
\* line whose leading token is not a keyword is an error that quotes the token.
C16_ParserTotal ==
    io.pc = "parsed"
    => /\ io.parsed.res \in {"Ok", "Err"}
       /\ (io.parsed.res = "Ok") = (io.parsed.op # NoOp)
       /\ (Len(LineTokens) = 1 /\ GrammarBare(Keyword) = <<>>)
          => /\ io.parsed.res = "Err"
             /\ io.parsed.kind = "NotComplete"
             /\ io.parsed.text = to_lowercase(io.line)
       /\ (Len(LineTokens) >= 2 /\ Keyword \notin GrammarKeywords)
          => /\ io.parsed.res = "Err"
             /\ io.parsed.kind = "NotValidOperation"
             /\ io.parsed.text = LineTokens[1]

\* C16 witness: a line of one word that is no keyword, with a capital letter,
\* has been parsed.
C16_Witness ==
    /\ io.pc = "parsed"
    /\ Len(LineTokens) = 1
    /\ GrammarBare(Keyword) = <<>>
    /\ io.line # to_lowercase(io.line)

\* the parsed operation names a row that the matrix did not have
RowOutsideMatrix ==
    /\ io.parsed.res = "Ok"
    /\ (io.parsed.op.i >= Len(pre.elements) \/ io.parsed.op.j >= Len(pre.elements))

\* C11: in the command loop a line that does not parse, and a parsed operation
\* whose row is outside the matrix, are answered with a message and the loop
\* reads the next line; the session never ends by a crash.
C11_SessionContinues ==
    /\ io.pc # "panicked"
    /\ (Handled /\ io.pc # "parsed" /\ (io.parsed.res = "Err" \/ RowOutsideMatrix))
       => (io.pc = "prompt" /\ io.out = "Error")

\* C21: when two matrices, each reached by calls that succeeded, are compared
\* and their elements are equal, their checksums are equal and == is true.
C21_EqualityByElements ==
    (last.call.op = "eq" /\ elements = other.elements)
    => /\ checksum = other.checksum
       /\ last.val = TRUE
=============================================================================
